---------------------------- MODULE Spec2Model ----------------------------
(***************************************************************************)
(* Model of sat_monitor.py: one monitoring run fetches the SAT dates page, *)
(* extracts the test dates, computes a content signature, compares both    *)
(* with the persisted state, notifies Discord and Telegram, and saves the  *)
(* new state.  Runs are sequential; the state file, its temporary file and *)
(* the quarantined copies survive from one run to the next.                *)
(*                                                                         *)
(* Strings are sequences of one-character tokens; a serialized HTML tag is *)
(* one token.  "1" and "2" are digits, "x" a letter, " " whitespace and    *)
(* "D" stands for the word "date".                                         *)
(***************************************************************************)
EXTENDS Integers, Sequences, FiniteSets, TLC

(***************************************************************************)
(* Program constants                                                       *)
(***************************************************************************)
DATE_THRESHOLD == 7

max_retries == 3

discord_max_retries == 3

telegram_max_retries == 3

CB_CLASS == "cb-table cb-no-margin-top"

(***************************************************************************)
(* Bounds of the model                                                     *)
(***************************************************************************)
\* the longest date table has DATE_THRESHOLD + MaxOver data rows
MaxOver == 1

\* inline script timestamps range over 1..MaxStamp
MaxStamp == 1

\* at most MaxFaults local faults (a failed file operation, a killed
\* process) are injected in one behaviour
MaxFaults == 1

(***************************************************************************)
(* Python string helpers                                                   *)
(***************************************************************************)
Digits == {"1", "2"}

RECURSIVE lstrip(_)
lstrip(t) ==
    IF t = <<>> THEN <<>>
    ELSE IF Head(t) = " " THEN lstrip(Tail(t)) ELSE t

RECURSIVE rstrip(_)
rstrip(t) ==
    IF t = <<>> THEN <<>>
    ELSE IF t[Len(t)] = " " THEN rstrip(SubSeq(t, 1, Len(t) - 1)) ELSE t

\* str.strip()
strip(t) == rstrip(lstrip(t))

\* any(char.isdigit() for char in text)
any_isdigit(t) == \E i \in 1..Len(t) : t[i] \in Digits

\* re.sub(r'\s+', ' ', s)
RECURSIVE CollapseWS(_)
CollapseWS(s) ==
    IF s = <<>> THEN <<>>
    ELSE IF Head(s) = " " THEN <<" ">> \o CollapseWS(lstrip(s))
    ELSE <<Head(s)>> \o CollapseWS(Tail(s))

\* set(list)
set(l) == {l[i] : i \in 1..Len(l)}

\* hashlib.md5(...).hexdigest(): injective on the strings of the model
MD5(s) == <<"md5">> \o s

(***************************************************************************)
(* Documents: the parse tree BeautifulSoup builds from the fetched HTML.   *)
(* A document has meta elements, script elements, comments, body text and  *)
(* table elements; a table has class, id, style and data-x attributes (""  *)
(* when absent) and rows of one cell each; a cell is <th scope="row">      *)
(* ("th_row"), another <th> ("th") or <td>.                                *)
(***************************************************************************)
Cell(tag, text) == [tag |-> tag, text |-> text]

TabWith(cls, id, style, data, rows) ==
    [cls |-> cls, id |-> id, style |-> style, data |-> data, rows |-> rows]

\* a table with no attribute but class
Tab(cls, rows) == TabWith(cls, "", "", "", rows)

DocWith(metas, scripts, comments, body, tables) ==
    [metas |-> metas, scripts |-> scripts, comments |-> comments,
     body |-> body, tables |-> tables]

\* a document without meta elements and comments
Doc(scripts, body, tables) == DocWith(<<>>, scripts, <<>>, body, tables)

OpenTag(tag) ==
    IF tag = "th_row" THEN "<th scope=row>" ELSE IF tag = "th" THEN "<th>" ELSE "<td>"

CloseTag(tag) == IF tag = "td" THEN "</td>" ELSE "</th>"

SerRow(r) == <<"<tr>", OpenTag(r.tag)>> \o r.text \o <<CloseTag(r.tag), "</tr>">>

RECURSIVE SerRows(_)
SerRows(rows) ==
    IF rows = <<>> THEN <<>> ELSE SerRow(Head(rows)) \o SerRows(Tail(rows))

\* name="value", nothing when the attribute is absent
SerAttr(name, value) == IF value = "" THEN <<>> ELSE <<name, value>>

SerAttrs(t) ==
    SerAttr(" class=", t.cls) \o SerAttr(" id=", t.id)
        \o SerAttr(" style=", t.style) \o SerAttr(" data-x=", t.data)

SerTable(t) ==
    (IF SerAttrs(t) = <<>> THEN <<"<table>">> ELSE <<"<table">> \o SerAttrs(t) \o <<">">>)
        \o SerRows(t.rows) \o <<"</table>">>

RECURSIVE SerTables(_)
SerTables(ts) ==
    IF ts = <<>> THEN <<>> ELSE SerTable(Head(ts)) \o SerTables(Tail(ts))

RECURSIVE SerScripts(_)
SerScripts(ss) ==
    IF ss = <<>> THEN <<>>
    ELSE <<"<script>">> \o Head(ss) \o <<"</script>">> \o SerScripts(Tail(ss))

RECURSIVE SerMetas(_)
SerMetas(ms) ==
    IF ms = <<>> THEN <<>>
    ELSE <<"<meta content=">> \o Head(ms) \o <<"/>">> \o SerMetas(Tail(ms))

RECURSIVE SerComments(_)
SerComments(cs) ==
    IF cs = <<>> THEN <<>>
    ELSE <<"<!--">> \o Head(cs) \o <<"-->">> \o SerComments(Tail(cs))

\* str(soup)
Ser(d) ==
    SerMetas(d.metas) \o SerScripts(d.scripts) \o SerComments(d.comments)
        \o d.body \o SerTables(d.tables)

\* the text of a table: the concatenated texts of its cells
RECURSIVE TableText(_)
TableText(rows) ==
    IF rows = <<>> THEN <<>> ELSE Head(rows).text \o TableText(Tail(rows))

(***************************************************************************)
(* clean_html_for_hash and calculate_content_hash                          *)
(***************************************************************************)
\* index of the first occurrence of token tok in s at or after i, 0 if none
RECURSIVE IndexFrom(_, _, _)
IndexFrom(s, tok, i) ==
    IF i > Len(s) THEN 0
    ELSE IF s[i] = tok THEN i ELSE IndexFrom(s, tok, i + 1)

\* str(content_soup.find('table')) on the cleaned string, <<>> if no table
FirstTableOf(s) ==
    LET b == IndexFrom(s, "<table>", 1)
    IN  IF b = 0 THEN <<>> ELSE SubSeq(s, b, IndexFrom(s, "</table>", b))

\* step 5: class, id, style and every data-* attribute are deleted
StripAttrs(t) == [t EXCEPT !.cls = "", !.id = "", !.style = "", !.data = ""]

\* clean_html_for_hash with a fault: step 5 is left out
clean_html_keeping_attrs(d) ==
    LET soup1   == [d EXCEPT !.scripts = <<>>]
        soup3   == [soup1 EXCEPT !.comments = <<>>]
        soup4   == [soup3 EXCEPT !.metas = <<>>]
        cleaned == CollapseWS(Ser(soup4))
        table   == FirstTableOf(cleaned)
    IN  IF table # <<>> THEN table ELSE cleaned

clean_html_for_hash(d) ==
    LET soup1   == [d EXCEPT !.scripts = <<>>]
        soup3   == [soup1 EXCEPT !.comments = <<>>]
        soup4   == [soup3 EXCEPT !.metas = <<>>]
        soup5   == [soup4 EXCEPT !.tables =
                        [i \in DOMAIN soup4.tables |-> StripAttrs(soup4.tables[i])]]
        cleaned == CollapseWS(Ser(soup5))
        table   == FirstTableOf(cleaned)
    IN  IF table # <<>> THEN table ELSE cleaned

calculate_content_hash(d) == MD5(clean_html_for_hash(d))

(***************************************************************************)
(* extract_test_dates                                                      *)
(***************************************************************************)
\* the first index of the set S of table indices, 0 if there is none
FirstIdx(S) == IF S = {} THEN 0 ELSE CHOOSE i \in S : \A j \in S : i <= j

HasClass(t) == t.cls = CB_CLASS

\* potential_table.find('th') and "date" in potential_table.text.lower()
LooksLikeDates(t) ==
    /\ \E i \in 1..Len(t.rows) : t.rows[i].tag \in {"th", "th_row"}
    /\ \E i \in 1..Len(TableText(t.rows)) : TableText(t.rows)[i] = "D"

\* index of the table the extractor reads, 0 if none
SelectedTable(d) ==
    LET byClass == FirstIdx({i \in 1..Len(d.tables) : HasClass(d.tables[i])})
    IN  IF byClass # 0 THEN byClass
        ELSE FirstIdx({i \in 1..Len(d.tables) : LooksLikeDates(d.tables[i])})

\* the date cells of rows[1:]
RECURSIVE DatesOf(_)
DatesOf(rows) ==
    IF rows = <<>> THEN <<>>
    ELSE LET date_cell == Head(rows)
         IN  (IF /\ date_cell.tag = "th_row"
                 /\ strip(date_cell.text) # <<>>
                 /\ any_isdigit(date_cell.text)
              THEN <<strip(date_cell.text)>> ELSE <<>>) \o DatesOf(Tail(rows))

extract_test_dates(d) ==
    IF Ser(d) = <<>> THEN <<>>
    ELSE LET k == SelectedTable(d)
         IN  IF k = 0 \/ d.tables[k].rows = <<>> THEN <<>>
             ELSE DatesOf(Tail(d.tables[k].rows))

(***************************************************************************)
(* The pages the server may return                                         *)
(***************************************************************************)
\* the header row: <th scope="col">Date</th>
HeaderRow == Cell("th", <<"D">>)

DateRow(text) == Cell("th_row", text)

\* a table carrying the expected class, with one date row
DateTab(text) == Tab(CB_CLASS, <<HeaderRow, DateRow(text)>>)

\* a table without the expected class, found by the fallback scan
FallbackTab(text) == Tab("other", <<HeaderRow, DateRow(text)>>)

\* a table that is not a date table: no <th>, no "date"
LayoutTab == Tab("nav", <<Cell("td", <<"x">>)>>)

\* a table of n dated rows, then a row without a digit, then an empty one
LongTab(n) ==
    Tab(CB_CLASS, <<HeaderRow>>
                  \o [i \in 1..n |-> DateRow(<<IF i % 2 = 1 THEN "1" ELSE "2">>)]
                  \o <<DateRow(<<"x">>), DateRow(<<" ">>)>>)

\* the inline timestamp of a script element
Stamp(k) == [i \in 1..k |-> "1"]

DateTexts == {<<"1">>, <<"2">>, <<" ", "1">>}

Docs ==
       {Doc(<<>>, <<"x">>, <<>>)}
    \cup {Doc(<<>>, <<>>, <<DateTab(t)>>) : t \in {<<"1">>, <<"2">>}}
    \cup {Doc(<<>>, <<>>, <<FallbackTab(t)>>) :
              t \in {<<"1", " ", "2">>, <<"1", " ", " ", "2">>}}
    \cup {Doc(<<Stamp(1)>>, <<"x">>, <<LayoutTab, DateTab(t)>>) : t \in DateTexts}
    \cup {Doc(<<Stamp(k)>>, <<"x">>, <<LayoutTab, DateTab(<<"1">>)>>) : k \in 1..MaxStamp}
    \cup {Doc(<<>>, <<>>, <<LongTab(n)>>) :
              n \in DATE_THRESHOLD..(DATE_THRESHOLD + MaxOver)}

\* page_data before fetch_page has returned, and when it returned None
NoDoc == Doc(<<>>, <<"None">>, <<>>)

(***************************************************************************)
(* Files.  A file is absent, holds a JSON value, or holds bytes that are   *)
(* not JSON.  kind says which:                                             *)
(*   "absent"      no such file                                            *)
(*   "state"       an object with the three fields save_state writes       *)
(*   "unparseable" text that is not JSON (json.JSONDecodeError)            *)
(*   "undecodable" bytes that are not UTF-8 (UnicodeDecodeError)           *)
(*   "partial"     a truncated JSON document                               *)
(*   "scalar"      a JSON number, true, false or null                      *)
(*   "emptyseq"    the JSON list [] or string ""                           *)
(*   "seq"         a non-empty JSON list or string                         *)
(*   "emptyobj"    the JSON object {}                                      *)
(*   "otherobj"    a non-empty JSON object without the expected fields     *)
(***************************************************************************)
FileOf(kind, h, dates, n) ==
    [kind |-> kind, content_hash |-> h, test_date_count |-> n, test_dates |-> dates]

NoFile == FileOf("absent", <<>>, <<>>, 0)

Bytes(kind) == FileOf(kind, <<>>, <<>>, 0)

\* Python's None as the value of prev_state, and as a missing hash
None == FileOf("None", <<>>, <<>>, 0)

NoHash == <<>>

MalformedKinds ==
    {"unparseable", "undecodable", "scalar", "emptyseq", "seq", "emptyobj", "otherobj"}

\* the dictionary save_state builds
StateOf(content_hash, test_dates) ==
    FileOf("state", content_hash, test_dates, Len(test_dates))

\* bool(value) for the value json.load returned
Truthy(v) == v.kind \in {"seq", "otherobj", "state"}

\* value.get(key) is defined on dictionaries only
HasGet(v) == v.kind \in {"emptyobj", "otherobj", "state"}

(***************************************************************************)
(* State                                                                   *)
(***************************************************************************)
VARIABLES
    file,            \* content of STATE_FILE
    tmp,             \* content of STATE_FILE.tmp
    quarantine,      \* contents of the STATE_FILE.corrupted.<time> files
    pc,              \* position of the process
    attempt,         \* loop variable of the retry loop being executed, else 0
    page_data,       \* "unset", "None" or "dict": what fetch_page returned
    html_content, content_hash, test_dates, prev_state,
    page_changed, should_notify, prev_hash,
    discord_result, telegram_result,      \* "unset", "True" or "False"
    exit_code,       \* -1 while the process runs
    calls,           \* history: the functions main has called in this run
    reqs,            \* history: requests and sleeps of the last function called
    auth_failed,     \* history: the retry loop is recovering from an authorization failure
    saved,           \* history: os.replace of this run's save_state completed
    fs0,             \* history: the files when the run started
    lastDoc,         \* history: page fetched by the previous run, or NoDoc
    lastHash,        \* history: signature computed by the previous run
    lastSaved,       \* history: the previous run completed its os.replace
    faults           \* number of faults injected so far

fsVars == <<file, tmp, quarantine>>

fetchVars == <<page_data, html_content, content_hash>>

decVars == <<prev_state, page_changed, should_notify, prev_hash>>

resVars == <<discord_result, telegram_result>>

histVars == <<fs0, lastDoc, lastHash, lastSaved>>

vars == <<file, tmp, quarantine, pc, attempt, page_data, html_content, content_hash,
          test_dates, prev_state, page_changed, should_notify, prev_hash,
          discord_result, telegram_result, exit_code, calls, reqs, auth_failed,
          saved, fs0, lastDoc, lastHash, lastSaved, faults>>

\* the values of the run's variables before main has assigned them
Fresh ==
    /\ attempt = 0
    /\ page_data = "unset"
    /\ html_content = NoDoc
    /\ content_hash = NoHash
    /\ test_dates = <<>>
    /\ prev_state = None
    /\ page_changed = FALSE
    /\ should_notify = FALSE
    /\ prev_hash = NoHash
    /\ discord_result = "unset"
    /\ telegram_result = "unset"
    /\ exit_code = -1
    /\ calls = <<>>
    /\ reqs = <<>>
    /\ auth_failed = FALSE
    /\ saved = FALSE

\* the first run finds no state file, or one the program did not write
Init ==
    /\ file \in {NoFile} \cup {Bytes(k) : k \in MalformedKinds}
    /\ tmp = NoFile
    /\ quarantine = {}
    /\ pc = "idle"
    /\ Fresh
    /\ fs0 = [file |-> file, tmp |-> tmp, quarantine |-> quarantine]
    /\ lastDoc = NoDoc
    /\ lastHash = NoHash
    /\ lastSaved = FALSE
    /\ faults = 0

(***************************************************************************)
(* main and fetch_page                                                     *)
(***************************************************************************)
\* the scheduler starts the process; main calls fetch_page
StartRun ==
    /\ pc = "idle"
    /\ pc' = "fetch"
    /\ attempt' = 0
    /\ calls' = <<"fetch_page">>
    /\ reqs' = <<>>
    /\ fs0' = [file |-> file, tmp |-> tmp, quarantine |-> quarantine]
    /\ UNCHANGED <<fsVars, fetchVars, test_dates, decVars, resVars, exit_code, saved,
                   lastDoc, lastHash, lastSaved, faults>>
    /\ auth_failed' = FALSE

\* requests.get succeeds: fetch_page hashes the page and returns the dictionary
FetchOk(d) ==
    /\ pc = "fetch"
    /\ reqs' = reqs \o <<"GET">>
    /\ page_data' = "dict"
    /\ html_content' = d
    /\ content_hash' = calculate_content_hash(d)
    /\ attempt' = 0
    /\ pc' = "extract"
    /\ UNCHANGED <<fsVars, test_dates, decVars, resVars, exit_code, saved,
                   histVars, faults>>
    /\ UNCHANGED calls
    /\ UNCHANGED auth_failed

\* FetchFail with a fault: main goes on when fetch_page returns None
FetchFailNoReturn ==
    /\ pc = "fetch"
    /\ LET attempt_num == attempt + 1
       IN  IF attempt_num < max_retries
           THEN /\ reqs' = reqs \o <<"GET", "sleep 5">>
                /\ attempt' = attempt + 1
                /\ UNCHANGED <<pc, page_data, exit_code>>
           ELSE /\ reqs' = reqs \o <<"GET">>
                /\ page_data' = "None"
                /\ pc' = "extract"
                /\ attempt' = 0
                /\ UNCHANGED exit_code
    /\ UNCHANGED <<fsVars, html_content, content_hash, test_dates, decVars, resVars,
                   saved, histVars, faults>>
    /\ UNCHANGED calls
    /\ UNCHANGED auth_failed

\* FetchFail with a fault: main ends the process with exit(1) when
\* fetch_page returns None
FetchFailFlagged ==
    /\ pc = "fetch"
    /\ LET attempt_num == attempt + 1
       IN  IF attempt_num < max_retries
           THEN /\ reqs' = reqs \o <<"GET", "sleep 5">>
                /\ attempt' = attempt + 1
                /\ UNCHANGED <<pc, page_data, exit_code>>
           ELSE /\ reqs' = reqs \o <<"GET">>
                /\ page_data' = "None"
                /\ pc' = "done"
                /\ exit_code' = 1
                /\ attempt' = 0
    /\ UNCHANGED <<fsVars, html_content, content_hash, test_dates, decVars, resVars,
                   saved, histVars, faults>>
    /\ UNCHANGED calls
    /\ UNCHANGED auth_failed

\* FetchFail with a fault: the delay is also waited after the last attempt
FetchFailSleepsLast ==
    /\ pc = "fetch"
    /\ LET attempt_num == attempt + 1
       IN  IF attempt_num < max_retries
           THEN /\ reqs' = reqs \o <<"GET", "sleep 5">>
                /\ attempt' = attempt + 1
                /\ UNCHANGED <<pc, page_data, exit_code>>
           ELSE /\ reqs' = reqs \o <<"GET", "sleep 5">>
                /\ page_data' = "None"
                /\ pc' = "done"
                /\ exit_code' = 0
                /\ attempt' = 0
    /\ UNCHANGED <<fsVars, html_content, content_hash, test_dates, decVars, resVars,
                   saved, histVars, faults>>
    /\ UNCHANGED calls
    /\ UNCHANGED auth_failed

\* requests.get or raise_for_status raises RequestException
FetchFail ==
    /\ pc = "fetch"
    /\ LET attempt_num == attempt + 1
       IN  IF attempt_num < max_retries
           THEN /\ reqs' = reqs \o <<"GET", "sleep 5">>
                /\ attempt' = attempt + 1
                /\ UNCHANGED <<pc, page_data, exit_code>>
           ELSE \* fetch_page returns None and main returns
                /\ reqs' = reqs \o <<"GET">>
                /\ page_data' = "None"
                /\ pc' = "done"
                /\ exit_code' = 0
                /\ attempt' = 0
    /\ UNCHANGED <<fsVars, html_content, content_hash, test_dates, decVars, resVars,
                   saved, histVars, faults>>
    /\ UNCHANGED calls
    /\ UNCHANGED auth_failed

Extract ==
    /\ pc = "extract"
    /\ calls' = calls \o <<"extract_test_dates">>
    /\ reqs' = <<>>
    /\ test_dates' = extract_test_dates(html_content)
    /\ pc' = "load"
    /\ UNCHANGED <<fsVars, attempt, fetchVars, decVars, resVars, exit_code, saved,
                   histVars, faults>>
    /\ auth_failed' = FALSE

(***************************************************************************)
(* load_state                                                              *)
(***************************************************************************)
\* what load_state returns when it does not reach the rename
LoadResult(f) ==
    IF f.kind \in {"absent", "undecodable", "scalar"} THEN None ELSE f

\* no file, a file json.load accepts, or one that raises another exception
\* than JSONDecodeError (UnicodeDecodeError, TypeError of len(state))
LoadState ==
    /\ pc = "load"
    /\ file.kind \notin {"unparseable", "partial"}
    /\ calls' = calls \o <<"load_state">>
    /\ reqs' = <<>>
    /\ prev_state' = LoadResult(file)
    /\ pc' = "decide"
    /\ UNCHANGED <<fsVars, attempt, fetchVars, test_dates, page_changed, should_notify,
                   prev_hash, resVars, exit_code, saved, histVars, faults>>
    /\ auth_failed' = FALSE

\* JSONDecodeError, and os.rename moves the file aside
LoadStateQuarantine ==
    /\ pc = "load"
    /\ file.kind \in {"unparseable", "partial"}
    /\ calls' = calls \o <<"load_state">>
    /\ reqs' = <<>>
    /\ quarantine' = quarantine \cup {file}
    /\ file' = NoFile
    /\ prev_state' = None
    /\ pc' = "decide"
    /\ UNCHANGED <<tmp, attempt, fetchVars, test_dates, page_changed, should_notify,
                   prev_hash, resVars, exit_code, saved, histVars, faults>>
    /\ auth_failed' = FALSE

\* JSONDecodeError, and os.rename raises
LoadStateRenameFails ==
    /\ pc = "load"
    /\ file.kind \in {"unparseable", "partial"}
    /\ faults < MaxFaults
    /\ faults' = faults + 1
    /\ calls' = calls \o <<"load_state">>
    /\ reqs' = <<>>
    /\ prev_state' = None
    /\ pc' = "decide"
    /\ UNCHANGED <<fsVars, attempt, fetchVars, test_dates, page_changed, should_notify,
                   prev_hash, resVars, exit_code, saved, histVars>>
    /\ auth_failed' = FALSE

(***************************************************************************)
(* main: the decision                                                      *)
(***************************************************************************)
\* GetContentHash with a fault: another key is read
GetContentHashWrongKey(v) == NoHash

\* prev_state.get("content_hash")
GetContentHash(v) == IF v.kind = "state" THEN v.content_hash ELSE NoHash

\* prev_state.get("test_dates", [])
GetTestDates(v) == IF v.kind = "state" THEN v.test_dates ELSE <<>>

\* HashMismatch with a fault: the comparison is made without a baseline
HashMismatchNoBaseline(prev, hash) == hash # GetContentHash(prev)

\* the branch "content_hash != prev_hash_value"
HashMismatch(prev, hash) == Truthy(prev) /\ hash # GetContentHash(prev)

\* the branch "set(test_dates) != set(prev_dates)"
DatesMismatch(prev, hash, dates) ==
    /\ Truthy(prev)
    /\ hash = GetContentHash(prev)
    /\ set(dates) # set(GetTestDates(prev))

\* PageChanged with a fault: the comparison of the date sets is missing
PageChangedHashOnly(prev, hash, dates) == HashMismatch(prev, hash)

\* the value of page_changed after the comparison with the previous state
PageChanged(prev, hash, dates) ==
    HashMismatch(prev, hash) \/ DatesMismatch(prev, hash, dates)

\* len(test_dates) > DATE_THRESHOLD
ThresholdExceeded(dates) == Len(dates) > DATE_THRESHOLD

\* lines 466-500 of main; prev_state.get raises AttributeError on a
\* non-empty list or string, and the exception leaves main
Decide ==
    /\ pc = "decide"
    /\ IF Truthy(prev_state) /\ ~HasGet(prev_state)
       THEN /\ pc' = "raised"
            /\ exit_code' = 1
            /\ UNCHANGED <<page_changed, should_notify, prev_hash>>
       ELSE /\ page_changed' = PageChanged(prev_state, content_hash, test_dates)
            /\ prev_hash' = IF HashMismatch(prev_state, content_hash)
                            THEN GetContentHash(prev_state) ELSE NoHash
            /\ should_notify' = (page_changed' \/ ThresholdExceeded(test_dates))
            /\ pc' = IF should_notify' THEN "discord" ELSE "save"
            /\ UNCHANGED exit_code
    /\ UNCHANGED <<fsVars, attempt, fetchVars, test_dates, prev_state, resVars, calls,
                   saved, histVars, faults>>
    /\ UNCHANGED reqs
    /\ UNCHANGED auth_failed

(***************************************************************************)
(* send_discord_notification                                               *)
(***************************************************************************)
\* the outcomes of a POST: delivered, an HTTP error status, no response
PostErrors == {"http_401", "http_403", "http_500", "timeout"}

\* the description of a 200 response of Telegram whose "ok" is false
ApiErrors == {"Unauthorized", "Not Found", "Too Many Requests"}

\* "unauthorized" in error_msg.lower() or "not found" in error_msg.lower()
Permanent(error_msg) == error_msg \in {"Unauthorized", "Not Found"}

\* the outcomes that report an authorization failure: the HTTP statuses 401
\* and 403, and the API descriptions "Unauthorized" and "Not Found"
AuthFailures == {"http_401", "http_403"} \cup {e \in ApiErrors : Permanent(e)}

\* the reasons a notifier states, recomputed from its arguments
notification_reason(dates, changed) ==
    (IF Len(dates) > DATE_THRESHOLD THEN <<"exceeds the threshold">> ELSE <<>>)
        \o (IF changed THEN <<"content has changed">> ELSE <<>>)

\* DiscordSkip with a fault: main gives up notifying when Discord is not
\* configured
DiscordSkipAborts ==
    /\ pc = "discord"
    /\ calls' = calls \o <<"send_discord_notification">>
    /\ reqs' = <<>>
    /\ auth_failed' = FALSE
    /\ discord_result' = "False"
    /\ pc' = "save"
    /\ UNCHANGED <<fsVars, attempt, fetchVars, test_dates, decVars, telegram_result,
                   exit_code, saved, histVars, faults>>

\* DISCORD_WEBHOOK_URL is not set
DiscordSkip ==
    /\ pc = "discord"
    /\ calls' = calls \o <<"send_discord_notification">>
    /\ reqs' = <<>>
    /\ discord_result' = "False"
    /\ pc' = "telegram"
    /\ UNCHANGED <<fsVars, attempt, fetchVars, test_dates, decVars, telegram_result,
                   exit_code, saved, histVars, faults>>
    /\ auth_failed' = FALSE

\* the webhook is configured: the message is built and the loop entered
DiscordBegin ==
    /\ pc = "discord"
    /\ calls' = calls \o <<"send_discord_notification">>
    /\ reqs' = <<>>
    /\ attempt' = 0
    /\ pc' = "discord_post"
    /\ UNCHANGED <<fsVars, fetchVars, test_dates, decVars, resVars, exit_code, saved,
                   histVars, faults>>
    /\ auth_failed' = FALSE

DiscordPostOk ==
    /\ pc = "discord_post"
    /\ reqs' = reqs \o <<"POST">>
    /\ discord_result' = "True"
    /\ attempt' = 0
    /\ pc' = "telegram"
    /\ UNCHANGED <<fsVars, fetchVars, test_dates, decVars, telegram_result,
                   exit_code, saved, histVars, faults>>
    /\ UNCHANGED calls
    /\ auth_failed' = FALSE

\* requests.post or raise_for_status raises RequestException
DiscordPostFail(err) ==
    /\ pc = "discord_post"
    /\ err \in PostErrors
    /\ IF attempt < discord_max_retries - 1
       THEN /\ reqs' = reqs \o <<"POST", "sleep 2">>
            /\ attempt' = attempt + 1
            /\ auth_failed' = (err \in AuthFailures)
            /\ UNCHANGED <<pc, discord_result>>
       ELSE /\ reqs' = reqs \o <<"POST">>
            /\ discord_result' = "False"
            /\ pc' = "telegram"
            /\ attempt' = 0
            /\ auth_failed' = FALSE
    /\ UNCHANGED <<fsVars, fetchVars, test_dates, decVars, telegram_result, exit_code,
                   saved, histVars, faults>>
    /\ UNCHANGED calls

(***************************************************************************)
(* send_telegram_notification                                              *)
(***************************************************************************)
\* TELEGRAM_BOT_TOKEN is not set
TelegramSkip ==
    /\ pc = "telegram"
    /\ calls' = calls \o <<"send_telegram_notification">>
    /\ reqs' = <<>>
    /\ telegram_result' = "False"
    /\ pc' = "save"
    /\ UNCHANGED <<fsVars, attempt, fetchVars, test_dates, decVars, discord_result,
                   exit_code, saved, histVars, faults>>
    /\ auth_failed' = FALSE

TelegramBegin ==
    /\ pc = "telegram"
    /\ calls' = calls \o <<"send_telegram_notification">>
    /\ reqs' = <<>>
    /\ attempt' = 0
    /\ pc' = "telegram_post"
    /\ UNCHANGED <<fsVars, fetchVars, test_dates, decVars, resVars, exit_code, saved,
                   histVars, faults>>
    /\ auth_failed' = FALSE

\* the response is 200 and its "ok" is true
TelegramPostOk ==
    /\ pc = "telegram_post"
    /\ reqs' = reqs \o <<"POST">>
    /\ telegram_result' = "True"
    /\ attempt' = 0
    /\ pc' = "save"
    /\ UNCHANGED <<fsVars, fetchVars, test_dates, decVars, discord_result,
                   exit_code, saved, histVars, faults>>
    /\ UNCHANGED calls
    /\ auth_failed' = FALSE

\* the response is 200 and its "ok" is false
TelegramApiError(error_msg) ==
    /\ pc = "telegram_post"
    /\ error_msg \in ApiErrors
    /\ IF ~Permanent(error_msg) /\ attempt < telegram_max_retries - 1
       THEN /\ reqs' = reqs \o <<"POST", "sleep 2">>
            /\ attempt' = attempt + 1
            /\ auth_failed' = (error_msg \in AuthFailures)
            /\ UNCHANGED <<pc, telegram_result>>
       ELSE /\ reqs' = reqs \o <<"POST">>
            /\ telegram_result' = "False"
            /\ pc' = "save"
            /\ attempt' = 0
            /\ auth_failed' = FALSE
    /\ UNCHANGED <<fsVars, fetchVars, test_dates, decVars, discord_result, exit_code,
                   saved, histVars, faults>>
    /\ UNCHANGED calls

\* the handlers that may catch the exception response.json() raises on a
\* body that is not JSON: the installed requests raises either its own
\* JSONDecodeError, a RequestException, or a plain ValueError
JsonHandlers == {"RequestException", "Exception"}

\* TelegramBadBody with a fault: no handler around the retry loop, so that an
\* exception that is not a RequestException reaches main
TelegramBadBodyRaises(handler) ==
    /\ pc = "telegram_post"
    /\ handler \in JsonHandlers
    /\ IF handler = "RequestException" /\ attempt < telegram_max_retries - 1
       THEN /\ reqs' = reqs \o <<"POST", "sleep 2">>
            /\ attempt' = attempt + 1
            /\ auth_failed' = FALSE
            /\ UNCHANGED <<pc, telegram_result, exit_code>>
       ELSE IF handler = "RequestException"
       THEN /\ reqs' = reqs \o <<"POST">>
            /\ telegram_result' = "False"
            /\ pc' = "save"
            /\ attempt' = 0
            /\ auth_failed' = FALSE
            /\ UNCHANGED exit_code
       ELSE /\ reqs' = reqs \o <<"POST">>
            /\ pc' = "raised"
            /\ exit_code' = 1
            /\ attempt' = 0
            /\ auth_failed' = FALSE
            /\ UNCHANGED telegram_result
    /\ UNCHANGED <<fsVars, fetchVars, test_dates, decVars, discord_result,
                   saved, histVars, faults>>
    /\ UNCHANGED calls

\* the response is 200 and its body is not JSON
TelegramBadBody(handler) ==
    /\ pc = "telegram_post"
    /\ handler \in JsonHandlers
    /\ IF handler = "RequestException" /\ attempt < telegram_max_retries - 1
       THEN /\ reqs' = reqs \o <<"POST", "sleep 2">>
            /\ attempt' = attempt + 1
            /\ auth_failed' = FALSE
            /\ UNCHANGED <<pc, telegram_result>>
       ELSE /\ reqs' = reqs \o <<"POST">>
            /\ telegram_result' = "False"
            /\ pc' = "save"
            /\ attempt' = 0
            /\ auth_failed' = FALSE
    /\ UNCHANGED <<fsVars, fetchVars, test_dates, decVars, discord_result, exit_code,
                   saved, histVars, faults>>
    /\ UNCHANGED calls

\* requests.post or raise_for_status raises RequestException
TelegramPostFail(err) ==
    /\ pc = "telegram_post"
    /\ err \in PostErrors
    /\ IF attempt < telegram_max_retries - 1
       THEN /\ reqs' = reqs \o <<"POST", "sleep 2">>
            /\ attempt' = attempt + 1
            /\ auth_failed' = (err \in AuthFailures)
            /\ UNCHANGED <<pc, telegram_result>>
       ELSE /\ reqs' = reqs \o <<"POST">>
            /\ telegram_result' = "False"
            /\ pc' = "save"
            /\ attempt' = 0
            /\ auth_failed' = FALSE
    /\ UNCHANGED <<fsVars, fetchVars, test_dates, decVars, discord_result, exit_code,
                   saved, histVars, faults>>
    /\ UNCHANGED calls

(***************************************************************************)
(* save_state                                                              *)
(***************************************************************************)
\* OpenTemp with a fault: the state file itself is opened for writing
OpenStateFile(f, t) == [file |-> Bytes("partial"), tmp |-> t]

\* open(temp_file, 'w') creates or truncates STATE_FILE.tmp
OpenTemp(f, t) == [file |-> f, tmp |-> Bytes("partial")]

\* os.replace(temp_file, STATE_FILE)
Replace(f, t) == [file |-> t, tmp |-> NoFile]

SaveOpenTmp ==
    /\ pc = "save"
    /\ calls' = calls \o <<"save_state">>
    /\ reqs' = <<>>
    /\ file' = OpenTemp(file, tmp).file
    /\ tmp' = OpenTemp(file, tmp).tmp
    /\ pc' = "save_dump"
    /\ UNCHANGED <<quarantine, attempt, fetchVars, test_dates, decVars, resVars,
                   exit_code, saved, histVars, faults>>
    /\ auth_failed' = FALSE

\* open raises; save_state logs the error and main returns
SaveOpenFails ==
    /\ pc = "save"
    /\ faults < MaxFaults
    /\ faults' = faults + 1
    /\ calls' = calls \o <<"save_state">>
    /\ reqs' = <<>>
    /\ pc' = "done"
    /\ exit_code' = 0
    /\ UNCHANGED <<fsVars, attempt, fetchVars, test_dates, decVars, resVars, saved,
                   histVars>>
    /\ auth_failed' = FALSE

\* json.dump writes the whole state and the file is closed
SaveDump ==
    /\ pc = "save_dump"
    /\ tmp' = StateOf(content_hash, test_dates)
    /\ pc' = "save_replace"
    /\ UNCHANGED <<file, quarantine, attempt, fetchVars, test_dates, decVars, resVars,
                   exit_code, calls, saved, histVars, faults>>
    /\ UNCHANGED reqs
    /\ UNCHANGED auth_failed

\* the write raises part-way (disk full)
SaveDumpFails ==
    /\ pc = "save_dump"
    /\ faults < MaxFaults
    /\ faults' = faults + 1
    /\ pc' = "done"
    /\ exit_code' = 0
    /\ UNCHANGED <<fsVars, attempt, fetchVars, test_dates, decVars, resVars, calls,
                   saved, histVars>>
    /\ UNCHANGED reqs
    /\ UNCHANGED auth_failed

SaveReplace ==
    /\ pc = "save_replace"
    /\ file' = Replace(file, tmp).file
    /\ tmp' = Replace(file, tmp).tmp
    /\ saved' = TRUE
    /\ pc' = "done"
    /\ exit_code' = 0
    /\ UNCHANGED <<quarantine, attempt, fetchVars, test_dates, decVars, resVars, calls,
                   histVars, faults>>
    /\ UNCHANGED reqs
    /\ UNCHANGED auth_failed

\* SaveReplaceFails with a fault: save_state does not catch the exception
SaveReplaceFailsRaises ==
    /\ pc = "save_replace"
    /\ faults < MaxFaults
    /\ faults' = faults + 1
    /\ pc' = "raised"
    /\ exit_code' = 1
    /\ UNCHANGED <<fsVars, attempt, fetchVars, test_dates, decVars, resVars, calls,
                   saved, histVars>>
    /\ UNCHANGED reqs
    /\ UNCHANGED auth_failed

\* os.replace raises
SaveReplaceFails ==
    /\ pc = "save_replace"
    /\ faults < MaxFaults
    /\ faults' = faults + 1
    /\ pc' = "done"
    /\ exit_code' = 0
    /\ UNCHANGED <<fsVars, attempt, fetchVars, test_dates, decVars, resVars, calls,
                   saved, histVars>>
    /\ UNCHANGED reqs
    /\ UNCHANGED auth_failed

(***************************************************************************)
(* The process                                                             *)
(***************************************************************************)
Running == pc \notin {"idle", "done", "raised", "killed"}

\* the process is killed (the job is cancelled, the machine stops)
Crash ==
    /\ Running
    /\ faults < MaxFaults
    /\ faults' = faults + 1
    /\ pc' = "killed"
    /\ exit_code' = 137
    /\ UNCHANGED <<fsVars, attempt, fetchVars, test_dates, decVars, resVars, calls,
                   saved, histVars>>
    /\ UNCHANGED reqs
    /\ UNCHANGED auth_failed

\* the process has exited; its variables are gone, the files remain
EndRun ==
    /\ pc \in {"done", "raised", "killed"}
    /\ pc' = "idle"
    /\ attempt' = 0
    /\ page_data' = "unset"
    /\ html_content' = NoDoc
    /\ content_hash' = NoHash
    /\ test_dates' = <<>>
    /\ prev_state' = None
    /\ page_changed' = FALSE
    /\ should_notify' = FALSE
    /\ prev_hash' = NoHash
    /\ discord_result' = "unset"
    /\ telegram_result' = "unset"
    /\ exit_code' = -1
    /\ calls' = <<>>
    /\ reqs' = <<>>
    /\ saved' = FALSE
    /\ lastDoc' = IF page_data = "dict" THEN html_content ELSE NoDoc
    /\ lastHash' = content_hash
    /\ lastSaved' = saved
    /\ fs0' = [file |-> file, tmp |-> tmp, quarantine |-> quarantine]
    /\ UNCHANGED <<fsVars, faults>>
    /\ auth_failed' = FALSE

Next ==
    \/ StartRun
    \/ \E d \in Docs : FetchOk(d)
    \/ FetchFail
    \/ Extract
    \/ LoadState
    \/ LoadStateQuarantine
    \/ LoadStateRenameFails
    \/ Decide
    \/ DiscordSkip
    \/ DiscordBegin
    \/ DiscordPostOk
    \/ \E err \in PostErrors : DiscordPostFail(err)
    \/ TelegramSkip
    \/ TelegramBegin
    \/ TelegramPostOk
    \/ \E error_msg \in ApiErrors : TelegramApiError(error_msg)
    \/ \E handler \in JsonHandlers : TelegramBadBody(handler)
    \/ \E err \in PostErrors : TelegramPostFail(err)
    \/ SaveOpenTmp
    \/ SaveOpenFails
    \/ SaveDump
    \/ SaveDumpFails
    \/ SaveReplace
    \/ SaveReplaceFails
    \/ Crash
    \/ EndRun

Spec == Init /\ [][Next]_vars

TypeOK ==
    /\ pc \in {"idle", "fetch", "extract", "load", "decide", "discord", "discord_post",
               "telegram", "telegram_post", "save", "save_dump", "save_replace",
               "done", "raised", "killed"}
    /\ attempt \in 0..2
    /\ page_data \in {"unset", "None", "dict"}
    /\ html_content \in Docs \cup {NoDoc}
    /\ page_changed \in BOOLEAN /\ should_notify \in BOOLEAN
    /\ discord_result \in {"unset", "True", "False"}
    /\ telegram_result \in {"unset", "True", "False"}
    /\ exit_code \in {-1, 0, 1, 137}
    /\ faults \in 0..MaxFaults
    /\ auth_failed \in BOOLEAN

(***************************************************************************)
(* calculate_content_hash as a function of the document: two documents are *)
(* drawn from the variants below and each is hashed.                       *)
(***************************************************************************)
\* the texts compared for runs of whitespace
SpacedTexts == {<<"1", " ", "2">>, <<"1", " ", " ", "2">>, <<"1", "2">>}

\* pages without a table: all of the cleaned document is hashed
PlainVariants ==
    {DocWith(metas, <<Stamp(k)>>, comments, body, <<>>) :
        metas \in {<<>>, <<<<"x">>>>, <<<<"1">>>>},
        k \in 1..(MaxStamp + 1),
        comments \in {<<>>, <<<<"x">>>>, <<<<"2">>>>},
        body \in SpacedTexts}

\* pages with a table: the cleaned first table is hashed
TableVariants ==
    {Doc(<<>>, <<>>, <<TabWith(cls, id, style, data, <<HeaderRow, DateRow(text)>>)>>) :
        cls \in {CB_CLASS, "other"}, id \in {"", "a"}, style \in {"", "b"},
        data \in {"c", "d"}, text \in SpacedTexts \ {<<"1", "2">>}}

Variants == PlainVariants \cup TableVariants

\* html_content and lastDoc hold the two documents
InitHash ==
    /\ file = NoFile
    /\ tmp = NoFile
    /\ quarantine = {}
    /\ pc = "compare"
    /\ attempt = 0
    /\ page_data = "dict"
    /\ html_content \in Variants
    /\ content_hash = NoHash
    /\ test_dates = <<>>
    /\ prev_state = None
    /\ page_changed = FALSE
    /\ should_notify = FALSE
    /\ prev_hash = NoHash
    /\ discord_result = "unset"
    /\ telegram_result = "unset"
    /\ exit_code = -1
    /\ calls = <<>>
    /\ reqs = <<>>
    /\ auth_failed = FALSE
    /\ saved = FALSE
    /\ fs0 = [file |-> file, tmp |-> tmp, quarantine |-> quarantine]
    /\ lastDoc \in Variants
    /\ lastHash = NoHash
    /\ lastSaved = FALSE
    /\ faults = 0

\* content_hash = calculate_content_hash(html_content), for both documents
HashBoth ==
    /\ pc = "compare"
    /\ content_hash' = calculate_content_hash(html_content)
    /\ lastHash' = calculate_content_hash(lastDoc)
    /\ pc' = "hashed"
    /\ UNCHANGED <<fsVars, attempt, page_data, html_content, test_dates, decVars,
                   resVars, exit_code, calls, reqs, saved, fs0, lastDoc, lastSaved,
                   faults>>
    /\ UNCHANGED auth_failed

NextHash == HashBoth

HashSpec == InitHash /\ [][NextHash]_vars

(***************************************************************************)
(* Properties                                                              *)
(***************************************************************************)
\* the page was fetched and main has passed the decision
Decided ==
    /\ page_data = "dict"
    /\ pc \in {"discord", "discord_post", "telegram", "telegram_post",
               "save", "save_dump", "save_replace", "done"}

\* the page was fetched and main has passed or left the decision
PastDecision == Decided \/ pc = "raised"

\* the page was fetched and the process has exited by itself
Finished == page_data = "dict" /\ pc \in {"done", "raised"}

\* load_state returned a non-empty JSON object
PriorLoaded == prev_state.kind \in {"state", "otherobj"}

\* the notifiers have been called
Notified == \E i \in 1..Len(calls) : calls[i] = "send_discord_notification"

\* C1: after a successful fetch ContentChanged is reported iff a prior state
\* was loaded and either the signature differs from its content_hash or the
\* set of extracted dates differs from the set of its test_dates.
C1_ContentChangedIff ==
    PastDecision =>
        (page_changed <=>
            /\ PriorLoaded
            /\ \/ content_hash # prev_state.content_hash
               \/ set(test_dates) # set(prev_state.test_dates))

\* the signatures are equal, the date sets differ, ContentChanged is reported
C1_Witness ==
    /\ Decided
    /\ PriorLoaded
    /\ content_hash = prev_state.content_hash
    /\ set(test_dates) # set(prev_state.test_dates)
    /\ page_changed

\* C2 (as claimed): after a successful fetch the notifiers are called whenever
\* more than DATE_THRESHOLD dates were extracted, whatever the prior state,
\* and a list of at most DATE_THRESHOLD dates does not call them by itself.
C2_ThresholdNotifies ==
    Finished =>
        /\ Len(test_dates) > DATE_THRESHOLD => Notified
        /\ (Len(test_dates) <= DATE_THRESHOLD /\ ~page_changed) => ~Notified

DifferInDateCell(d1, d2) ==
    LET k == SelectedTable(d1)
    IN  /\ k # 0
        /\ SelectedTable(d2) = k
        /\ d1.scripts = d2.scripts
        /\ d1.body = d2.body
        /\ Len(d1.tables) = Len(d2.tables)
        /\ \A i \in 1..Len(d1.tables) : i # k => d1.tables[i] = d2.tables[i]
        /\ d1.tables[k].cls = d2.tables[k].cls
        /\ Len(d1.tables[k].rows) = Len(d2.tables[k].rows)
        /\ \A i \in 1..Len(d1.tables[k].rows) :
              /\ d1.tables[k].rows[i].tag = d2.tables[k].rows[i].tag
              /\ d1.tables[k].rows[i].text # d2.tables[k].rows[i].text
                    => (i > 1 /\ d1.tables[k].rows[i].tag = "th_row")
        /\ d1.tables[k] # d2.tables[k]

\* C5 (as claimed): when the page differs from the page of the previous run
\* in the text of a date cell, and the previous run saved its state, the
\* signatures differ and ContentChanged is reported.
C5_TruePositive ==
    (PastDecision /\ lastSaved /\ DifferInDateCell(lastDoc, html_content)) =>
        /\ content_hash # lastHash
        /\ page_changed

\* the number of calls of function f in this run
RECURSIVE CountIn(_, _)
CountIn(f, cs) ==
    IF cs = <<>> THEN 0
    ELSE (IF Head(cs) = f THEN 1 ELSE 0) + CountIn(f, Tail(cs))

\* C6: when every fetch attempt has failed the run ends having called
\* fetch_page only, and the files are the files the run found.
C6_FailedFetchChangesNothing ==
    (pc = "done" /\ page_data = "None") =>
        /\ calls = <<"fetch_page">>
        /\ file = fs0.file /\ tmp = fs0.tmp /\ quarantine = fs0.quarantine
        /\ html_content = NoDoc /\ content_hash = NoHash /\ test_dates = <<>>
        /\ prev_state = None /\ ~page_changed /\ ~should_notify
        /\ discord_result = "unset" /\ telegram_result = "unset"
        /\ ~saved

\* three failed GETs in a run that found a saved state
C6_Witness ==
    /\ pc = "done"
    /\ page_data = "None"
    /\ reqs = <<"GET", "sleep 5", "GET", "sleep 5", "GET">>
    /\ fs0.file.kind = "state"
    /\ file = fs0.file

\* C7 (as claimed): a run whose fetch succeeded calls save_state exactly once,
\* as its last call and after both notifiers have returned; when the save
\* completed, the state file holds this run's signature, dates and count.
C7_SaveOnceAtEnd ==
    Finished =>
        /\ CountIn("save_state", calls) = 1
        /\ calls[Len(calls)] = "save_state"
        /\ should_notify => (discord_result # "unset" /\ telegram_result # "unset")
        /\ saved => /\ file.kind = "state"
                    /\ file.content_hash = content_hash
                    /\ file.test_dates = test_dates
                    /\ file.test_date_count = Len(test_dates)

\* C8: STATE_FILE changes only when load_state renames it aside or when
\* os.replace completes, and then to the complete new state; it never holds
\* a partially written state.
C8_AtomicSave ==
    [][ /\ file'.kind # "partial"
        /\ file' # file =>
              \/ /\ pc = "load"
                 /\ file' = NoFile
                 /\ file \in quarantine'
              \/ /\ pc = "save_replace"
                 /\ saved'
                 /\ file' = tmp
                 /\ file'.kind = "state"
                 /\ file'.content_hash = content_hash
                 /\ file'.test_dates = test_dates
                 /\ file'.test_date_count = Len(test_dates) ]_vars

\* a save interrupted after the temporary file was opened: the state file
\* still holds the state the run found
C8_Witness ==
    /\ pc \in {"done", "killed"}
    /\ CountIn("save_state", calls) = 1
    /\ ~saved
    /\ tmp.kind = "partial"
    /\ file.kind = "state"
    /\ file = fs0.file
    /\ file.content_hash # content_hash

\* C9 (as claimed): a run that finds a malformed state file gets None from
\* load_state and proceeds as a first run: no exception, no ContentChanged,
\* and save_state called at the end.
C9_MalformedAsAbsent ==
    (PastDecision /\ fs0.file.kind \in MalformedKinds) =>
        /\ prev_state = None
        /\ pc # "raised"
        /\ ~page_changed
        /\ pc = "done" => CountIn("save_state", calls) = 1

\* C10 (as claimed): when a run that found a malformed state file calls
\* save_state, the malformed file has been renamed aside.
C10_Quarantined ==
    (fs0.file.kind \in MalformedKinds /\ CountIn("save_state", calls) = 1) =>
        fs0.file \in quarantine

\* a and b differ at most in the content of their script elements
SameButScripts(a, b) ==
    /\ Len(a.scripts) = Len(b.scripts)
    /\ [a EXCEPT !.scripts = b.scripts] = b

\* a and b differ at most in the class, id, style and data-* attributes
SameButAttrs(a, b) ==
    /\ Len(a.tables) = Len(b.tables)
    /\ \A i \in 1..Len(a.tables) : a.tables[i].rows = b.tables[i].rows
    /\ [a EXCEPT !.tables = b.tables] = b

\* a and b differ at most in their comments
SameButComments(a, b) == [a EXCEPT !.comments = b.comments] = b

\* a and b differ at most in their meta elements
SameButMetas(a, b) == [a EXCEPT !.metas = b.metas] = b

\* a and b differ at most in the length of the whitespace runs of their text
SameButWhitespace(a, b) ==
    /\ CollapseWS(a.body) = CollapseWS(b.body)
    /\ Len(a.tables) = Len(b.tables)
    /\ \A i \in 1..Len(a.tables) :
          /\ Len(a.tables[i].rows) = Len(b.tables[i].rows)
          /\ \A j \in 1..Len(a.tables[i].rows) :
                /\ a.tables[i].rows[j].tag = b.tables[i].rows[j].tag
                /\ CollapseWS(a.tables[i].rows[j].text)
                       = CollapseWS(b.tables[i].rows[j].text)
          /\ [a.tables[i] EXCEPT !.rows = b.tables[i].rows] = b.tables[i]
    /\ [a EXCEPT !.body = b.body, !.tables = b.tables] = b

DifferOnlyInNoise(a, b) ==
    \/ SameButScripts(a, b)
    \/ SameButAttrs(a, b)
    \/ SameButComments(a, b)
    \/ SameButMetas(a, b)
    \/ SameButWhitespace(a, b)

\* C11: two documents that differ only in script content, or only in class,
\* id, style or data-* attribute values, or only in comments, or only in meta
\* elements, or only in the length of whitespace runs, have the same
\* signature.
C11_NoiseInsensitive ==
    (pc = "hashed" /\ DifferOnlyInNoise(lastDoc, html_content))
        => content_hash = lastHash

\* two pages whose table differs in its attributes were hashed alike
C11_Witness ==
    /\ pc = "hashed"
    /\ html_content.tables # <<>>
    /\ html_content.tables # lastDoc.tables
    /\ SameButAttrs(lastDoc, html_content)
    /\ content_hash = lastHash

\* the requests and waits of n attempts: n requests with a wait between them
AttemptLog(request, wait, n) ==
    [i \in 1..(2 * n - 1) |-> IF i % 2 = 1 THEN request ELSE wait]

\* fetch_page has returned and main has not yet called another function
FetchReturned == calls = <<"fetch_page">> /\ pc # "fetch"

\* C12: fetch_page makes at most max_retries GET requests; it returns the
\* page at the first successful one without a further request or wait, it
\* waits only between a failed request and the next one, and it returns None
\* only after max_retries requests have failed.
C12_FetchBounded ==
    /\ pc = "fetch" =>
          /\ attempt < max_retries
          /\ reqs = IF attempt = 0 THEN <<>>
                    ELSE AttemptLog("GET", "sleep 5", attempt) \o <<"sleep 5">>
    /\ (FetchReturned /\ pc \notin {"idle", "killed"}) =>
          /\ page_data \in {"dict", "None"}
          /\ page_data = "dict" =>
                \E n \in 1..max_retries : reqs = AttemptLog("GET", "sleep 5", n)
          /\ page_data = "None" => reqs = AttemptLog("GET", "sleep 5", max_retries)

\* the third request succeeded after two failed ones
C12_Witness ==
    /\ FetchReturned
    /\ page_data = "dict"
    /\ reqs = AttemptLog("GET", "sleep 5", max_retries)

\* C13: once a delivery attempt of either notifier fails with an
\* authorization failure, the notifier is not left waiting to retry: it has
\* returned false and makes no further attempt.
C13_PermanentNotRetried ==
    /\ pc = "discord_post" => ~auth_failed
    /\ pc = "telegram_post" => ~auth_failed

\* the function main called last
LastCall == IF calls = <<>> THEN "" ELSE calls[Len(calls)]

\* a notifier has returned and main has not yet called another function
DiscordReturned == LastCall = "send_discord_notification" /\ pc = "telegram"

TelegramReturned == LastCall = "send_telegram_notification" /\ pc = "save"

\* the logs of a notifier that was configured and has returned: at most
\* three POSTs, a wait between two of them and none after the last
PostLogs == {AttemptLog("POST", "sleep 2", n) : n \in 1..3}

\* C14: a notifier makes at most 3 POST attempts per invocation, returns
\* true at the first successful delivery without a further attempt, returns
\* false once the attempts are exhausted, and never raises to main.
C14_NotifierBounded ==
    /\ pc \in {"discord_post", "telegram_post"} =>
          /\ attempt < 3
          /\ reqs = IF attempt = 0 THEN <<>>
                    ELSE AttemptLog("POST", "sleep 2", attempt) \o <<"sleep 2">>
    /\ pc = "discord_post" => discord_result = "unset"
    /\ pc = "telegram_post" => telegram_result = "unset"
    /\ DiscordReturned =>
          /\ discord_result \in {"True", "False"}
          /\ discord_result = "True" => reqs \in PostLogs
          /\ discord_result = "False" =>
                reqs \in {<<>>, AttemptLog("POST", "sleep 2", 3)}
    /\ TelegramReturned =>
          /\ telegram_result \in {"True", "False"}
          /\ telegram_result = "True" => reqs \in PostLogs
          /\ telegram_result = "False" => reqs \in {<<>>} \cup PostLogs
    /\ pc = "raised" =>
          LastCall \notin {"send_discord_notification", "send_telegram_notification"}

\* Telegram was delivered by the third POST, after two failed ones
C14_Witness ==
    /\ TelegramReturned
    /\ telegram_result = "True"
    /\ reqs = AttemptLog("POST", "sleep 2", 3)

\* C15: in a run that notifies, each notifier is called exactly once,
\* Telegram after Discord whatever Discord returned, and save_state is called
\* after both; a notifier that is not configured makes no request and
\* returns false, and the run goes on to the other channel and to the save.
C15_ChannelsIndependent ==
    /\ (pc = "done" /\ should_notify) =>
          /\ calls = <<"fetch_page", "extract_test_dates", "load_state",
                       "send_discord_notification", "send_telegram_notification",
                       "save_state">>
          /\ discord_result \in {"True", "False"}
          /\ telegram_result \in {"True", "False"}
    /\ (DiscordReturned /\ reqs = <<>>) => discord_result = "False"
    /\ (TelegramReturned /\ reqs = <<>>) => telegram_result = "False"
    /\ pc \in {"telegram", "telegram_post"} =>
          CountIn("send_discord_notification", calls) = 1
    /\ LastCall = "send_discord_notification" => pc \notin {"save", "done", "raised"}

\* Discord failed, Telegram was delivered and the state was written
C15_Witness ==
    /\ pc = "done"
    /\ should_notify
    /\ discord_result = "False"
    /\ telegram_result = "True"
    /\ saved

\* C16: a run in which main returns exits with code 0, also when a notifier
\* returned false or save_state failed; the program exits with a non-zero
\* code exactly when an exception has escaped main.  (A killed process has
\* the code the operating system gives it.)
C16_ExitCode ==
    /\ pc = "done" => exit_code = 0
    /\ pc = "raised" => exit_code = 1
    /\ (pc # "killed" /\ exit_code \notin {-1, 0}) => pc = "raised"
    /\ (pc \in {"done", "raised"} /\ "send_discord_notification" \in set(calls)) =>
          exit_code = 0
    /\ (pc \in {"done", "raised"} /\ "save_state" \in set(calls)) => exit_code = 0
    /\ Running => exit_code = -1

\* both notifiers returned false, the save failed, and the exit code is 0
C16_Witness ==
    /\ pc = "done"
    /\ exit_code = 0
    /\ discord_result = "False"
    /\ telegram_result = "False"
    /\ LastCall = "save_state"
    /\ ~saved

\* C17 (as claimed): a run whose fetch succeeded and whose extraction is
\* empty still calls load_state, decides, calls the notifiers if the
\* decision asks for it and calls save_state; when a prior state with another
\* signature was loaded ContentChanged is reported; and the state saved has
\* count 0 and no dates.
C17_EmptyExtractionNotFatal ==
    (Finished /\ test_dates = <<>>) =>
        /\ pc = "done"
        /\ CountIn("load_state", calls) = 1
        /\ should_notify <=> Notified
        /\ LastCall = "save_state"
        /\ (PriorLoaded /\ prev_state.content_hash # content_hash) =>
              (page_changed /\ Notified)
        /\ saved => /\ file.kind = "state"
                    /\ file.test_date_count = 0
                    /\ file.test_dates = <<>>

\* C18 (as claimed): in every run whose fetch succeeded the notifiers are
\* called iff ContentChanged was reported or more than DATE_THRESHOLD dates
\* were extracted, should_notify says the same, and the reason text of a
\* notifier that was called is not empty.
C18_NotifiedIffReason ==
    /\ Finished =>
          /\ Notified <=> (page_changed \/ ThresholdExceeded(test_dates))
          /\ should_notify <=> (page_changed \/ ThresholdExceeded(test_dates))
    /\ Notified => notification_reason(test_dates, page_changed) # <<>>

\* C19: when fetch_page has returned None main returns normally and the
\* process exits with code 0, the code of a run that fetched the page and
\* returned.
C19_FailedFetchExitsZero ==
    /\ page_data = "None" => (pc = "done" /\ exit_code = 0)
    /\ (page_data = "dict" /\ pc = "done") => exit_code = 0

\* three GETs have failed and the process has exited with code 0
C19_Witness ==
    /\ page_data = "None"
    /\ CountIn("GET", reqs) = max_retries
    /\ calls = <<"fetch_page">>
    /\ exit_code = 0

=============================================================================
